---------------------------- MODULE Spec2Model ----------------------------
(***************************************************************************)
(* A model of the prerequisite finder: the crawler of                      *)
(* src/scrapers/scraper.py (get_html, find_course_links,                   *)
(* scrape_prerequisites, main) and the lookup of chatbot.py                *)
(* (find_prerequisites, run_chatbot).                                      *)
(*                                                                         *)
(* A Python string is a sequence of one-character strings, so that the     *)
(* regular expressions, urljoin, urlparse, split, strip and lower of the   *)
(* code are computed on the characters.  An HTML page is the part of it    *)
(* the code reads: the href attributes of its anchors, the text of the     *)
(* block after its prerequisite heading, its body text and its title tag.  *)
(***************************************************************************)
EXTENDS Integers, Sequences, FiniteSets, TLC

VARIABLES
    pc,                     \* main: "crawl" (l.169-185), "scrape" (l.190-197),
                            \*       "done" (after l.199-204), "crashed" (uncaught exception);
                            \* a function on its own: "call", "returned";
                            \* run_chatbot: "prompt" (l.85-99), "ended"
    queue,                  \* main: queue (l.163)
    visited_urls,           \* main: visited_urls (l.164)
    course_urls_to_scrape,  \* main: course_urls_to_scrape (l.165)
    to_scrape,              \* main: what the for loop of l.190 has yet to iterate
    all_prereqs,            \* main: all_prereqs (l.160)
    output_file,            \* the content of OUTPUT_FILE, None while it was never written
    file_writes,            \* how many times l.199-200 ran
    crawl_fetches,          \* URL -> number of get_html calls of l.173
    scrape_fetches,         \* URL -> number of get_html calls of l.110
    same_found,             \* links find_course_links returned for a page of their netloc
    cross_found,            \* links find_course_links returned for a page of another netloc
    enqueued,               \* URL -> number of times it was put on the queue (l.163, l.181)
    last,                   \* what the last step of main did
    mode,                   \* which program the behaviour is of: "crawl", "links",
                            \* "extract", "chat"
    arg,                    \* the input of the function on its own, the data file of
                            \* the chatbot
    ret                     \* the function's result, the chatbot's last reply; None
                            \* before there is one

vars == <<pc, queue, visited_urls, course_urls_to_scrape, to_scrape, all_prereqs,
          output_file, file_writes, crawl_fetches, scrape_fetches, same_found,
          cross_found, enqueued, last, mode, arg, ret>>

\* Python's None where a page, a record or a response is expected.
None == [none |-> TRUE]

\* Python's None where a string is expected: no string of characters equals it.
NoText == <<"None">>

(***************************************************************************)
(* Strings                                                                 *)
(***************************************************************************)

UpperChars == <<"A","B","C","D","E","F","G","H","I","J","K","L","M","N","O","P","Q","R","S","T","U","V","W","X","Y","Z">>

LowerChars == <<"a","b","c","d","e","f","g","h","i","j","k","l","m","n","o","p","q","r","s","t","u","v","w","x","y","z">>

Digits == {"0", "1", "2", "3", "4", "5", "6", "7", "8", "9"}

Range(s) == {s[i] : i \in 1..Len(s)}

UpperSet == Range(UpperChars)

LowerSet == Range(LowerChars)

\* The lower-case form of every upper-case letter.
ToLower ==
    [c \in UpperSet |-> LowerChars[CHOOSE i \in 1..Len(UpperChars) : UpperChars[i] = c]]

IsDigit(c) == c \in Digits

\* str.lower on one character.
LowerChar(c) == IF c \in UpperSet THEN ToLower[c] ELSE c

\* str.lower.
Lower(s) == [i \in 1..Len(s) |-> LowerChar(s[i])]

\* [a-z] under re.IGNORECASE.
IsLetter(c) == c \in UpperSet \/ c \in LowerSet

\* s[i:j] of Python with 1-based inclusive bounds; empty when out of range.
Slice(s, i, j) == IF i > j THEN <<>> ELSE SubSeq(s, i, j)

\* re.search(lit, s, re.IGNORECASE) for a pattern that is a literal.
SearchLiteral(lit, s) ==
    \E i \in 1..(Len(s) - Len(lit) + 1) :
        \A k \in 1..Len(lit) : LowerChar(s[i + k - 1]) = LowerChar(lit[k])

\* The first index of character c in s, 0 when there is none (str.find + 1).
Find(s, c) ==
    IF \E i \in 1..Len(s) : s[i] = c
    THEN CHOOSE i \in 1..Len(s) : s[i] = c /\ \A j \in 1..(i - 1) : s[j] # c
    ELSE 0

RECURSIVE Concat(_)
\* ''.join(parts) for a sequence of strings.
Concat(parts) ==
    IF parts = <<>> THEN <<>> ELSE Head(parts) \o Concat(Tail(parts))

(***************************************************************************)
(* urllib.parse                                                            *)
(***************************************************************************)

\* The characters urlsplit accepts in a scheme.
IsSchemeChar(c) == IsLetter(c) \/ IsDigit(c) \/ c \in {"+", "-", "."}

\* urlsplit: the URL has a scheme when the text before its first ':' is a
\* letter followed by scheme characters.
HasScheme(url) ==
    LET i == Find(url, ":")
    IN  /\ i > 1
        /\ IsLetter(url[1])
        /\ \A j \in 1..(i - 1) : IsSchemeChar(url[j])

\* urlsplit(url).scheme, lower-cased as urlsplit does.
Scheme(url) == IF HasScheme(url) THEN Lower(Slice(url, 1, Find(url, ":") - 1)) ELSE <<>>

\* What follows the scheme and its ':'.
AfterScheme(url) ==
    IF HasScheme(url) THEN Slice(url, Find(url, ":") + 1, Len(url)) ELSE url

\* The length of the leading part of s that holds none of '/', '?', '#'.
NetlocLen(s) ==
    IF \E i \in 1..Len(s) : s[i] \in {"/", "?", "#"}
    THEN (CHOOSE i \in 1..Len(s) :
            /\ s[i] \in {"/", "?", "#"}
            /\ \A j \in 1..(i - 1) : s[j] \notin {"/", "?", "#"}) - 1
    ELSE Len(s)

\* urlparse(url).netloc: what follows '//' up to the first '/', '?' or '#';
\* empty when the URL has no '//' after its scheme (mailto:, javascript:).
Netloc(url) ==
    LET rest == AfterScheme(url)
    IN  IF Len(rest) >= 2 /\ rest[1] = "/" /\ rest[2] = "/"
        THEN LET after == Slice(rest, 3, Len(rest))
             IN  Slice(after, 1, NetlocLen(after))
        ELSE <<>>

\* The URL without its fragment: what precedes the first '#'.
StripFragment(url) ==
    IF Find(url, "#") = 0 THEN url ELSE Slice(url, 1, Find(url, "#") - 1)

\* urlunparse leaves out an empty fragment: a '#' that ends the URL and is
\* its first one.
DropEmptyFragment(url) ==
    IF url # <<>> /\ Find(url, "#") = Len(url) THEN Slice(url, 1, Len(url) - 1) ELSE url

\* urljoin(base, href) for the three forms of href the model's pages hold:
\* a URL with a scheme, a path from the root ('/...') and a fragment
\* ('#...').  A URL of another scheme than the base's is returned as it is;
\* the others are taken apart and put together again by urlunparse.
urljoin(base, href) ==
    IF HasScheme(href)
    THEN IF Scheme(href) # Scheme(base) THEN href ELSE DropEmptyFragment(href)
    ELSE IF href # <<>> /\ href[1] = "/"
    THEN Scheme(base) \o <<":","/","/">> \o Netloc(base) \o DropEmptyFragment(href)
    ELSE DropEmptyFragment(StripFragment(base) \o href)

(***************************************************************************)
(* find_course_links                                                       *)
(***************************************************************************)

\* COURSE_LINK_KEYWORDS, the seven literal patterns.
COURSE_LINK_KEYWORDS ==
    { <<"c","o","u","r","s","e","s","/">>, <<"s","u","b","j","e","c","t","s","/">>, <<"s","y","l","l","a","b","u","s","/">>, <<"c","u","r","r","i","c","u","l","u","m","/">>, <<"p","r","o","g","r","a","m","/">>,
      <<"a","c","a","d","e","m","i","c","/">>, <<"c","o","u","r","s","e","-","d","e","t","a","i","l","/">> }

\* re.search(r'\d{2,4}[a-z]?-', s, re.IGNORECASE), the eighth keyword: two
\* to four digits, an optional letter, a dash.
SearchCodeDash(s) ==
    \E i \in 1..Len(s) :
        /\ IsDigit(s[i])
        /\ \E n \in 2..4 : \E t \in 0..1 :
              /\ i + n + t <= Len(s)
              /\ \A k \in i..(i + n - 1) : IsDigit(s[k])
              /\ t = 1 => IsLetter(s[i + n])
              /\ s[i + n + t] = "-"

\* any(re.search(keyword, absolute_url, re.IGNORECASE) for keyword in ...).
MatchesKeyword(url) ==
    \/ \E kw \in COURSE_LINK_KEYWORDS : SearchLiteral(kw, url)
    \/ SearchCodeDash(url)

\* re.search(r'\d{2,4}[a-z]?', s, re.IGNORECASE): the letter is optional, so
\* the search succeeds exactly when s holds two digits in a row.
SearchCourseCode(s) ==
    \E i \in 1..(Len(s) - 1) :
        /\ IsDigit(s[i])
        /\ \E n \in 2..4 :
              /\ i + n - 1 <= Len(s)
              /\ \A k \in i..(i + n - 1) : IsDigit(s[k])

\* re.search(r'#|javascript|mailto', s, re.IGNORECASE).
SearchExcluded(s) ==
    \/ SearchLiteral(<<"#">>, s)
    \/ SearchLiteral(<<"j","a","v","a","s","c","r","i","p","t">>, s)
    \/ SearchLiteral(<<"m","a","i","l","t","o">>, s)

\* l.89-95 with `else` for the `elif` of l.94: a keyword is enough.
IsCourseLink_Mut(url) == MatchesKeyword(url)

\* The test of l.89-95 on one absolute URL: a keyword, and then either a
\* course code or none of '#', javascript, mailto.
IsCourseLink(url) ==
    /\ MatchesKeyword(url)
    /\ \/ SearchCourseCode(url)
       \/ ~SearchExcluded(url)

\* find_course_links(html, base_url); html is the set of the href
\* attributes of the page's anchors.
find_course_links(html, base_url) ==
    {url \in {urljoin(base_url, href) : href \in html} : IsCourseLink(url)}

(***************************************************************************)
(* scrape_prerequisites                                                    *)
(***************************************************************************)

Whitespace == {" ", "\t", "\n"}

RECURSIVE LStrip(_)
LStrip(s) == IF s # <<>> /\ Head(s) \in Whitespace THEN LStrip(Tail(s)) ELSE s

RECURSIVE RStrip(_)
RStrip(s) ==
    IF s # <<>> /\ s[Len(s)] \in Whitespace THEN RStrip(Slice(s, 1, Len(s) - 1)) ELSE s

\* str.strip.
Strip(s) == RStrip(LStrip(s))

\* s.split(sep)[0]: what precedes the first sep.
SplitFirst(s, sep) == IF Find(s, sep) = 0 THEN s ELSE Slice(s, 1, Find(s, sep) - 1)

\* s.split(sep)[-1]: what follows the last sep.
SplitLast(s, sep) ==
    IF Find(s, sep) = 0 THEN s
    ELSE LET i == CHOOSE k \in 1..Len(s) :
                      s[k] = sep /\ \A j \in (k + 1)..Len(s) : s[j] # sep
         IN  Slice(s, i + 1, Len(s))

\* s.replace(old, new) for one-character old and new.
Replace(s, old, new) == [i \in 1..Len(s) |-> IF s[i] = old THEN new ELSE s[i]]

\* The sentinel of l.147.
NotSpecified == <<"N","o","t"," ","s","p","e","c","i","f","i","e","d">>

\* An HTML document as scrape_prerequisites and find_course_links read it:
\*   hrefs    the href attributes of its anchors (l.84-85)
\*   sibling  the text of the p/ul/div after the first h2/h3/h4/strong whose
\*            text holds "prerequisite" (l.119-124); NoText without such a
\*            heading or without such a sibling
\*   body     soup.get_text() (l.128)
\*   heading  the text of the first h1/h2/h3, NoText without one (l.135)
\*   title    the text of <title>, NoText without one (l.135)
Page(hrefs, sibling, body, heading, title) ==
    [hrefs |-> hrefs, sibling |-> sibling, body |-> body, heading |-> heading,
     title |-> title]

\* response.text of an empty response.
EmptyPage == Page({}, NoText, <<>>, NoText, NoText)

\* `if html` (l.174), `if not html` (l.111): None and the empty text are falsy.
Truthy(html) == html # None /\ html # EmptyPage

\* After the match of 'prerequisite' that ends before index p: [s]? :? \s*
\* take what they can, and (.*) takes the rest of the line.
AfterS(s, p) == IF p <= Len(s) /\ LowerChar(s[p]) = "s" THEN p + 1 ELSE p

AfterColon(s, p) == IF p <= Len(s) /\ s[p] = ":" THEN p + 1 ELSE p

RECURSIVE AfterSpaces(_, _)
AfterSpaces(s, p) ==
    IF p <= Len(s) /\ s[p] \in Whitespace THEN AfterSpaces(s, p + 1) ELSE p

RestOfLine(s, p) == SplitFirst(Slice(s, p, Len(s)), "\n")

\* re.search(r'prerequisite[s]?:?\s*(.*)', body_text, re.IGNORECASE):
\* group(1) of the leftmost match, NoText without a match (l.129).
PrereqMatch(body_text) ==
    LET word == <<"p","r","e","r","e","q","u","i","s","i","t","e">>
        at(i) == Lower(Slice(body_text, i, i + Len(word) - 1)) = word
        starts == {i \in 1..(Len(body_text) - Len(word) + 1) : at(i)}
    IN  IF starts = {} THEN NoText
        ELSE LET i == CHOOSE k \in starts : \A j \in starts : k <= j
             IN  RestOfLine(body_text,
                     AfterSpaces(body_text,
                         AfterColon(body_text, AfterS(body_text, i + Len(word)))))

\* `if prereq_text` / `if not prereq_text`: None and '' are falsy.
HasText(t) == t # NoText /\ t # <<>>

\* prereq_text after l.117-132.
PrereqText(html) ==
    IF HasText(html.sibling) THEN html.sibling
    ELSE IF PrereqMatch(html.body) # NoText
    THEN Strip(SplitFirst(PrereqMatch(html.body), "."))
    ELSE html.sibling

\* course_title after l.135-140.
CourseTitle(html, url) ==
    IF html.heading # NoText THEN Strip(html.heading)
    ELSE IF html.title # NoText THEN Strip(html.title)
    ELSE Strip(Replace(Replace(SplitLast(url, "/"), "-", " "), "_", " "))

\* The tuples <<letters, space, digits, trailing>> with which
\* [A-Z]{2,4}\s?\d{2,4}[A-Z]? (re.IGNORECASE) matches s at index i.
CodeMatchesAt(s, i) ==
    {m \in {n \in 2..4 : i + n - 1 <= Len(s) /\ \A k \in i..(i + n - 1) : IsLetter(s[k])}
              \X (0..1) \X (2..4) \X (0..1) :
        /\ i + m[1] + m[2] + m[3] + m[4] - 1 <= Len(s)
        /\ m[2] = 1 => s[i + m[1]] \in Whitespace
        /\ \A k \in (i + m[1] + m[2])..(i + m[1] + m[2] + m[3] - 1) : IsDigit(s[k])
        /\ m[4] = 1 => IsLetter(s[i + m[1] + m[2] + m[3]])}

\* The order in which the backtracking matcher tries them: every quantifier
\* is greedy, so the longer alternative of the leftmost quantifier first.
TriedBefore(a, b) ==
    \/ a[1] > b[1]
    \/ a[1] = b[1] /\ a[2] > b[2]
    \/ a[1] = b[1] /\ a[2] = b[2] /\ a[3] > b[3]
    \/ a[1] = b[1] /\ a[2] = b[2] /\ a[3] = b[3] /\ a[4] >= b[4]

\* The length of the match at index i, 0 without one.
CodeMatchLen(s, i) ==
    LET ms == CodeMatchesAt(s, i)
    IN  IF ms = {} THEN 0
        ELSE LET m == CHOOSE a \in ms : \A b \in ms : TriedBefore(a, b)
             IN  m[1] + m[2] + m[3] + m[4]

RECURSIVE FindAllFrom(_, _)
\* re.findall from index i on: the leftmost match, then on from its end.
FindAllFrom(s, i) ==
    IF i > Len(s) THEN <<>>
    ELSE LET n == CodeMatchLen(s, i)
         IN  IF n = 0 THEN FindAllFrom(s, i + 1)
             ELSE <<Slice(s, i, i + n - 1)>> \o FindAllFrom(s, i + n)

\* re.findall(r'[A-Z]{2,4}\s?\d{2,4}[A-Z]?', prereq_text, re.IGNORECASE) (l.144).
FindCourseCodes(prereq_text) == FindAllFrom(prereq_text, 1)

RECURSIVE Join(_, _)
\* sep.join(parts).
Join(sep, parts) ==
    IF parts = <<>> THEN <<>>
    ELSE IF Len(parts) = 1 THEN parts[1]
    ELSE parts[1] \o sep \o Join(sep, Tail(parts))

\* l.145 joining set(course_codes): a repeated code is kept once.
JoinCodes_Mut(course_codes, prereq_text) ==
    IF course_codes # <<>>
    THEN Join(<<","," ">>, SelectSeq(
             [i \in 1..Len(course_codes) |->
                 IF \E j \in 1..(i - 1) : course_codes[j] = course_codes[i]
                 THEN <<>> ELSE course_codes[i]],
             LAMBDA t : t # <<>>))
    ELSE prereq_text

\* l.145: ', '.join(course_codes) if course_codes else prereq_text.
JoinCodes(course_codes, prereq_text) ==
    IF course_codes # <<>> THEN Join(<<","," ">>, course_codes) ELSE prereq_text

\* prereqs after l.142-147.
Prereqs(prereq_text) ==
    IF HasText(prereq_text)
    THEN JoinCodes(FindCourseCodes(prereq_text), prereq_text)
    ELSE NotSpecified

\* scrape_prerequisites(url), html being what its get_html(url) returned.
scrape_prerequisites(url, html) ==
    IF ~Truthy(html) THEN None
    ELSE [title |-> CourseTitle(html, url),
          prerequisites |-> Prereqs(PrereqText(html)),
          source |-> url]

\* l.193 without its comparison with the sentinel.
Emittable_Mut(data) == data # None /\ data.title # <<>>

\* The test of l.193: data and data.get("title") and
\* data["prerequisites"] != "Not specified".
Emittable(data) ==
    /\ data # None
    /\ data.title # <<>>
    /\ data.prerequisites # NotSpecified

(***************************************************************************)
(* main: the crawl                                                         *)
(***************************************************************************)

\* STARTING_URLS (l.31-36).
STARTING_URLS ==
    << <<"h","t","t","p","s",":","/","/","o","c","w",".","m","i","t",".","e","d","u","/","c","o","u","r","s","e","s","/","f","i","n","d","-","b","y","-","t","o","p","i","c","/","#","c","a","t","=","e","n","g","i","n","e","e","r","i","n","g","&","s","u","b","c","a","t","=","c","o","m","p","u","t","e","r","-","s","c","i","e","n","c","e">>,
       <<"h","t","t","p","s",":","/","/","o","c","w",".","m","i","t",".","e","d","u","/","c","o","u","r","s","e","s","/","f","i","n","d","-","b","y","-","t","o","p","i","c","/","#","c","a","t","=","s","c","i","e","n","c","e","&","s","u","b","c","a","t","=","m","a","t","h","e","m","a","t","i","c","s">>,
       <<"h","t","t","p","s",":","/","/","o","n","l","i","n","e","c","o","u","r","s","e","s",".","s","w","a","y","a","m","2",".","a","c",".","i","n","/","c","o","u","r","s","e","_","c","a","t","e","g","o","r","y","_","l","i","s","t">>,
       <<"h","t","t","p","s",":","/","/","w","w","w",".","b","m","s","c","e",".","a","c",".","i","n","/","d","e","p","a","r","t","m","e","n","t","/","c","o","m","p","u","t","e","r","-","s","c","i","e","n","c","e","-","a","n","d","-","e","n","g","i","n","e","e","r","i","n","g","/","c","o","u","r","s","e","-","c","u","r","r","i","c","u","l","u","m">> >>

\* The most anchors a page of the model holds.
MaxLinks == 2

\* The href attributes the model's pages choose their anchors from: a course
\* page of the last seed's site, a course page of the first seed's site over
\* http, a path from the root with a keyword and no course code, and a path
\* with no keyword.
Hrefs ==
    { <<"h","t","t","p","s",":","/","/","w","w","w",".","b","m","s","c","e",".","a","c",".","i","n","/","c","o","u","r","s","e","s","/","2","0","2">>,
      <<"h","t","t","p",":","/","/","o","c","w",".","m","i","t",".","e","d","u","/","c","o","u","r","s","e","s","/","6","-","0","0","6">>,
      <<"/","s","y","l","l","a","b","u","s","/">>,
      <<"/","a","b","o","u","t">> }

\* The pages that hold anchors.
LinkPages ==
    {Page(hs, NoText, <<"C","o","u","r","s","e","s">>, <<"C","o","u","r","s","e","s">>, NoText) :
        hs \in {h \in SUBSET Hrefs : Cardinality(h) <= MaxLinks}}

\* The pages that hold a course (or none):
\*   <h1>Intro to Algorithms</h1><h2>Prerequisites</h2><p>CS 101, MATH 201</p>
\*   <title>Course</title> Prerequisite: none. Enjoy
\*   <h1>Welcome</h1>
\*   prerequisites: MA 101            (no heading, no title)
\*   <h2>Prerequisites</h2><p></p>
\*   <h1>Physics</h1> Prerequisites: Not specified.
\*   <h1> </h1><strong>Prerequisites</strong><p>CS 101</p>
CoursePages ==
    { Page({}, <<"C","S"," ","1","0","1",","," ","M","A","T","H"," ","2","0","1">>, <<"I","n","t","r","o"," ","t","o"," ","A","l","g","o","r","i","t","h","m","s"," ","P","r","e","r","e","q","u","i","s","i","t","e","s"," ","C","S"," ","1","0","1",","," ","M","A","T","H"," ","2","0","1">>,
           <<"I","n","t","r","o"," ","t","o"," ","A","l","g","o","r","i","t","h","m","s">>, NoText),
      Page({}, NoText, <<"C","o","u","r","s","e"," ","P","r","e","r","e","q","u","i","s","i","t","e",":"," ","n","o","n","e","."," ","E","n","j","o","y">>, NoText, <<"C","o","u","r","s","e">>),
      Page({}, NoText, <<"W","e","l","c","o","m","e">>, <<"W","e","l","c","o","m","e">>, NoText),
      Page({}, NoText, <<"p","r","e","r","e","q","u","i","s","i","t","e","s",":"," ","M","A"," ","1","0","1">>, NoText, NoText),
      Page({}, <<>>, <<"P","r","e","r","e","q","u","i","s","i","t","e","s">>, <<"P","r","e","r","e","q","u","i","s","i","t","e","s">>, NoText),
      Page({}, NoText, <<"P","h","y","s","i","c","s"," ","P","r","e","r","e","q","u","i","s","i","t","e","s",":"," ","N","o","t"," ","s","p","e","c","i","f","i","e","d",".">>, <<"P","h","y","s","i","c","s">>, NoText),
      Page({}, <<"C","S"," ","1","0","1">>, <<" ","P","r","e","r","e","q","u","i","s","i","t","e","s"," ","C","S"," ","1","0","1">>, <<" ">>, NoText) }

Pages == LinkPages \cup CoursePages \cup {EmptyPage}

\* requests.exceptions.RequestException: a network error, a timeout or,
\* through raise_for_status, a non-success status (l.63-64).
RequestException == [exception |-> "RequestException"]

\* What requests.get and raise_for_status may do with a URL: raise, or
\* return a page.  It is the network's choice at every request.
NetworkOutcomes == {RequestException} \cup Pages

\* get_html without its try/except: the exception of the request goes on
\* to the caller.
get_html_Mut(outcome) == outcome

\* get_html(url), outcome being what its request did: response.text, or
\* None when the request raised (l.62-68).
get_html(outcome) == IF outcome = RequestException THEN None ELSE outcome

\* A call that ends in an exception instead of a value: nothing in main
\* catches it, so it ends the run.
Raised(value) == value = RequestException

\* The number of times u was counted in f.
Count(f, u) == IF u \in DOMAIN f THEN f[u] ELSE 0

\* f with u counted once more.
Counted(f, u) ==
    [x \in DOMAIN f \cup {u} |-> Count(f, x) + (IF x = u THEN 1 ELSE 0)]

\* The orders in which a loop may iterate a Python set.
Orders(S) ==
    {s \in [1..Cardinality(S) -> S] : \A i, j \in 1..Cardinality(S) : s[i] = s[j] => i = j}

\* l.177 without its test: every link found is taken as new.
NotVisited_Mut(link, visited) == TRUE

\* l.177: link not in visited_urls.
NotVisited(link, visited) == link \notin visited

\* l.180 without its test: every new link is followed.
SameDomain_Mut(link, current_url) == TRUE

\* l.180: urlparse(link).netloc == urlparse(current_url).netloc.
SameDomain(link, current_url) == Netloc(link) = Netloc(current_url)

\* l.184: re.search(r'\d{2,4}[a-z]?', link, re.IGNORECASE).
LooksLikeCourse(link) == SearchCourseCode(link)

\* found_links of l.175; nothing when `if html` fails.
FoundLinks(html, current_url) ==
    IF Truthy(html) THEN find_course_links(html.hrefs, current_url) ELSE {}

\* l.195: the f-string reads data['prereqs'], a key scrape_prerequisites
\* never sets, so the print raises KeyError.
FoundMessageRaises(data) == "prereqs" \notin DOMAIN data

\* visited_urls of l.164.
InitVisited == Range(STARTING_URLS)

\* l.178 left out: no link is marked visited.
AddVisited_Mut(visited, new) == visited

\* l.178: visited_urls.add(link), for every link that passed l.177.
AddVisited(visited, new) == visited \cup new

CrawlInit ==
    /\ pc = "crawl"
    /\ queue = STARTING_URLS
    /\ visited_urls = InitVisited
    /\ course_urls_to_scrape = {}
    /\ to_scrape = {}
    /\ all_prereqs = <<>>
    /\ output_file = None
    /\ file_writes = 0
    /\ crawl_fetches = [u \in {} |-> 0]
    /\ scrape_fetches = [u \in {} |-> 0]
    /\ same_found = {}
    /\ cross_found = {}
    /\ enqueued = [u \in Range(STARTING_URLS) |-> 1]
    /\ last = [stage |-> "init", url |-> <<>>, ok |-> FALSE, found |-> FALSE]
    /\ mode = "crawl"
    /\ arg = None
    /\ ret = None

\* f with every member of S counted once more.
CountedAll(f, S) ==
    [x \in DOMAIN f \cup S |-> Count(f, x) + (IF x \in S THEN 1 ELSE 0)]

\* One iteration of the while loop of l.169-185.
CrawlPage ==
    /\ mode = "crawl"
    /\ pc = "crawl"
    /\ queue # <<>>
    /\ LET current_url == Head(queue) IN
       \E outcome \in NetworkOutcomes :
       \E html \in {get_html(outcome)} :
         /\ crawl_fetches' = Counted(crawl_fetches, current_url)
         /\ last' = [stage |-> "crawl", url |-> current_url,
                     ok |-> outcome # RequestException, found |-> FALSE]
         /\ IF Raised(html)
            THEN /\ pc' = "crashed"
                 /\ UNCHANGED <<queue, visited_urls, course_urls_to_scrape, same_found,
                                cross_found, enqueued>>
            ELSE \E found_links \in {FoundLinks(html, current_url)} :
                 \E site \in {{link \in found_links : SameDomain(link, current_url)}} :
                   LET new == {link \in found_links : NotVisited(link, visited_urls)}
                       follow == new \cap site
                   IN  /\ \E order \in Orders(follow) : queue' = Tail(queue) \o order
                       /\ visited_urls' = AddVisited(visited_urls, new)
                       /\ course_urls_to_scrape' =
                              course_urls_to_scrape
                                  \cup {link \in new : LooksLikeCourse(link)}
                       /\ same_found' = same_found \cup
                              {link \in found_links : Netloc(link) = Netloc(current_url)}
                       /\ cross_found' = cross_found \cup
                              {link \in found_links : Netloc(link) # Netloc(current_url)}
                       /\ enqueued' = CountedAll(enqueued, follow)
                       /\ pc' = "crawl"
    /\ UNCHANGED <<to_scrape, all_prereqs, output_file, file_writes,
                   scrape_fetches, mode, arg, ret>>

\* The while loop ends (l.169) and the for loop of l.190 starts.
StartScrape ==
    /\ mode = "crawl"
    /\ pc = "crawl"
    /\ queue = <<>>
    /\ pc' = "scrape"
    /\ to_scrape' = course_urls_to_scrape
    /\ last' = [stage |-> "start", url |-> <<>>, ok |-> FALSE, found |-> FALSE]
    /\ UNCHANGED <<queue, visited_urls, course_urls_to_scrape, all_prereqs, output_file,
                   file_writes, crawl_fetches, scrape_fetches, same_found, cross_found,
                   enqueued, mode, arg, ret>>

\* One iteration of the for loop of l.190-197.
ScrapePage ==
    /\ mode = "crawl"
    /\ pc = "scrape"
    /\ \E url \in to_scrape : \E outcome \in NetworkOutcomes :
       \E html \in {get_html(outcome)} :
         /\ to_scrape' = to_scrape \ {url}
         /\ scrape_fetches' = Counted(scrape_fetches, url)
         /\ IF Raised(html)
            THEN /\ pc' = "crashed"
                 /\ all_prereqs' = all_prereqs
                 /\ last' = [stage |-> "scrape", url |-> url, ok |-> FALSE,
                             found |-> FALSE]
            ELSE \E data \in {scrape_prerequisites(url, html)} :
                 /\ all_prereqs' =
                        IF Emittable(data) THEN Append(all_prereqs, data) ELSE all_prereqs
                 /\ pc' = IF Emittable(data) /\ FoundMessageRaises(data)
                          THEN "crashed" ELSE "scrape"
                 /\ last' = [stage |-> "scrape", url |-> url,
                             ok |-> outcome # RequestException,
                             found |-> Truthy(html) /\
                                 (html.sibling # NoText \/ PrereqMatch(html.body) # NoText)]
    /\ UNCHANGED <<queue, visited_urls, course_urls_to_scrape, output_file, file_writes,
                   crawl_fetches, same_found, cross_found, enqueued, mode, arg, ret>>

\* l.199-204: the for loop is over and the output file is written.
WriteOutput ==
    /\ mode = "crawl"
    /\ pc = "scrape"
    /\ to_scrape = {}
    /\ output_file' = all_prereqs
    /\ file_writes' = file_writes + 1
    /\ pc' = "done"
    /\ last' = [stage |-> "write", url |-> <<>>, ok |-> FALSE, found |-> FALSE]
    /\ UNCHANGED <<queue, visited_urls, course_urls_to_scrape, to_scrape, all_prereqs,
                   crawl_fetches, scrape_fetches, same_found, cross_found, enqueued,
                   mode, arg, ret>>

CrawlNext == CrawlPage \/ StartScrape \/ ScrapePage \/ WriteOutput

\* A run of scraper.py.
Spec == CrawlInit /\ [][CrawlNext]_vars

\* The same, running on: every request returns within its timeout (l.63),
\* so main always takes its next step.
FairSpec == Spec /\ WF_vars(CrawlNext)

(***************************************************************************)
(* The claims about the crawl                                              *)
(***************************************************************************)

\* The URLs main has asked get_html for, at either stage.
Fetched == DOMAIN crawl_fetches \cup DOMAIN scrape_fetches

SchemeHost(url) == <<Scheme(url), Netloc(url)>>

\* C2 as stated: an iteration of the traversal loop appends to the queue no
\* link whose scheme plus host differs from that of the page it fetched.
C2_SchemeHostContainment ==
    [][pc = "crawl" /\ queue # <<>> =>
        \A i \in Len(queue)..Len(queue') :
            SchemeHost(queue'[i]) = SchemeHost(Head(queue))]_vars

\* C2 as amended: an iteration of the traversal loop appends to the queue no
\* link whose netloc (host and port, whatever the scheme) differs from the
\* netloc of the page it fetched.
C2_NetlocContainment ==
    [][pc = "crawl" /\ queue # <<>> =>
        \A i \in Len(queue)..Len(queue') :
            Netloc(queue'[i]) = Netloc(Head(queue))]_vars

\* C2: the traversal is over, and a link found on a page of another netloc
\* is a candidate page though it was never put on the queue.
C2_Witness ==
    /\ pc = "scrape"
    /\ \E link \in cross_found :
         /\ link \in course_urls_to_scrape
         /\ Count(enqueued, link) = 0

\* C3: a run that has ended has written the output file exactly once, after
\* every candidate page was processed, and the file holds every record the
\* extraction stage produced.
C3_OutputWrittenOnce ==
    pc \in {"done", "crashed"} =>
        /\ file_writes = 1
        /\ to_scrape = {}
        /\ output_file = all_prereqs

\* C4: a request that fails at the traversal stage only removes the dequeued
\* URL, one that fails at the extraction stage only ends that URL's turn,
\* and the run goes on in the same stage.
C4_FailedFetchSkipsOneUrl ==
    [][/\ (crawl_fetches' # crawl_fetches /\ ~last'.ok) =>
            /\ queue' = Tail(queue)
            /\ pc' = "crawl"
            /\ UNCHANGED <<visited_urls, course_urls_to_scrape, all_prereqs, output_file>>
       /\ (scrape_fetches' # scrape_fetches /\ ~last'.ok) =>
            /\ to_scrape' = to_scrape \ {last'.url}
            /\ pc' = "scrape"
            /\ UNCHANGED <<queue, visited_urls, course_urls_to_scrape, all_prereqs,
                           output_file>>]_vars

\* C4: a request has failed at the extraction stage, after one had failed at
\* the traversal stage, and the run goes on.
C4_Witness ==
    /\ pc = "scrape"
    /\ last.stage = "scrape"
    /\ ~last.ok
    /\ to_scrape # {}

\* C5: every record of the output list has a title and a prerequisites value
\* other than the sentinel, and a page with no block after a prerequisite
\* heading and no match of the regular expression leaves no record.
C5_OnlyEmittableRecords ==
    /\ \A i \in 1..Len(all_prereqs) :
         /\ all_prereqs[i].title # <<>>
         /\ all_prereqs[i].prerequisites # NotSpecified
    /\ (last.stage = "scrape" /\ ~last.found) =>
         \A i \in 1..Len(all_prereqs) : all_prereqs[i].source # last.url
    /\ output_file # None =>
         \A i \in 1..Len(output_file) :
             /\ output_file[i].title # <<>>
             /\ output_file[i].prerequisites # NotSpecified

\* C5: the output list holds a record.
C5_Witness == Len(all_prereqs) > 0

\* C9: every URL is put on the queue at most once, and the traversal ends.
C9_TraversalTerminates ==
    /\ [](\A u \in DOMAIN enqueued : enqueued[u] <= 1)
    /\ <>(pc # "crawl")

\* C9: the queue is empty and the extraction stage has started, after links
\* found on the way were enqueued and fetched.
C9_Witness ==
    /\ pc = "scrape"
    /\ queue = <<>>
    /\ \E u \in DOMAIN crawl_fetches : u \notin Range(STARTING_URLS)

\* C10: once the traversal is over, every link that find_course_links
\* returned for a page of its own netloc has been dequeued and fetched.
C10_SameDomainLinksCrawled ==
    pc # "crawl" => \A link \in same_found : Count(crawl_fetches, link) >= 1

(***************************************************************************)
(* find_course_links on its own                                            *)
(***************************************************************************)

\* In a behaviour of find_course_links, of the code of l.142-147 or of the
\* chatbot, main does not run.
NoCrawl ==
    /\ queue = <<>>
    /\ visited_urls = {}
    /\ course_urls_to_scrape = {}
    /\ to_scrape = {}
    /\ all_prereqs = <<>>
    /\ output_file = None
    /\ file_writes = 0
    /\ crawl_fetches = [u \in {} |-> 0]
    /\ scrape_fetches = [u \in {} |-> 0]
    /\ same_found = {}
    /\ cross_found = {}
    /\ enqueued = [u \in {} |-> 0]
    /\ last = [stage |-> "init", url |-> <<>>, ok |-> FALSE, found |-> FALSE]

\* The most pieces an href of LinkHrefs is made of, after its prefix.
MaxChunks == 3

\* The pieces: a keyword, a course code, the excluded texts, a letter, and
\* the dash that makes a course code the eighth keyword.
LinkChunks == { <<"c","o","u","r","s","e","s","/">>, <<"4","2">>, <<"#">>, <<"m","a","i","l","t","o">>, <<"J","a","v","a","S","c","r","i","p","t">>, <<"x">>, <<"-">> }

\* How an href starts: a URL of the base's scheme, one of another scheme,
\* a mail link, a path from the root, a fragment.
LinkPrefixes == { <<"h","t","t","p","s",":","/","/","b",".","e","d","u","/">>, <<"h","t","t","p",":","/","/","b",".","e","d","u","/">>, <<"m","a","i","l","t","o",":">>, <<"/">>, <<"#">> }

\* The sequences of at most n pieces.
ChunkSeqs(n) == UNION {[1..k -> LinkChunks] : k \in 0..n}

\* The href attributes find_course_links is tried on.
LinkHrefs == {p \o Concat(cs) : p \in LinkPrefixes, cs \in ChunkSeqs(MaxChunks)}

\* The pages it is tried from: one with a keyword in its URL, one without.
LinkBases == { <<"h","t","t","p","s",":","/","/","a",".","e","d","u","/","c","o","u","r","s","e","s","/">>, <<"h","t","t","p","s",":","/","/","a",".","e","d","u","/","c","a","t","a","l","o","g">> }

\* The other anchors of the page.
LinkCompanions == { {}, { <<"/","c","o","u","r","s","e","s","/","#","t","o","p">>, <<"/","s","y","l","l","a","b","u","s","/","2","0","2","4","-","f","a","l","l">> } }

LinksInit ==
    /\ mode = "links"
    /\ pc = "call"
    /\ arg \in {[html |-> {href} \cup others, base_url |-> base] :
                   href \in LinkHrefs, others \in LinkCompanions, base \in LinkBases}
    /\ ret = None
    /\ NoCrawl

\* The call find_course_links(html, base_url).
ClassifyLinks ==
    /\ mode = "links"
    /\ pc = "call"
    /\ ret' = find_course_links(arg.html, arg.base_url)
    /\ pc' = "returned"
    /\ UNCHANGED <<queue, visited_urls, course_urls_to_scrape, to_scrape, all_prereqs,
                   output_file, file_writes, crawl_fetches, scrape_fetches, same_found,
                   cross_found, enqueued, last, mode, arg>>

LinksNext == ClassifyLinks

\* find_course_links called on a page.
LinksSpec == LinksInit /\ [][LinksNext]_vars

\* The URL holds s, whatever the case of its letters.
ContainsText(url, s) ==
    \E i \in 1..(Len(url) - Len(s) + 1) : Lower(Slice(url, i, i + Len(s) - 1)) = Lower(s)

\* The URL holds a fragment marker, 'javascript' or 'mailto'.
HasExcludedText(url) ==
    ContainsText(url, <<"#">>) \/ ContainsText(url, <<"j","a","v","a","s","c","r","i","p","t">>)
        \/ ContainsText(url, <<"m","a","i","l","t","o">>)

\* The URL holds two digits in a row, the least a course code needs.
HasDigitPair(url) == \E i \in 1..(Len(url) - 1) : url[i] \in Digits /\ url[i + 1] \in Digits

\* C6 as stated: find_course_links returns no URL that holds '#',
\* 'javascript' or 'mailto'.
C6_ExcludedUnconditionally ==
    pc = "returned" => \A url \in ret : ~HasExcludedText(url)

\* C6 as amended: find_course_links returns no URL that holds '#',
\* 'javascript' or 'mailto' unless the URL also holds a course code of two
\* to four digits; a URL that matches a keyword and holds such a code is
\* returned with or without those texts.
C6_ExcludedUnlessCourseCode ==
    pc = "returned" =>
        \A href \in arg.html :
            LET url == urljoin(arg.base_url, href) IN
            /\ (HasExcludedText(url) /\ ~HasDigitPair(url)) => url \notin ret
            /\ (MatchesKeyword(url) /\ HasDigitPair(url)) => url \in ret

\* C6: find_course_links has returned a URL that holds one of the three
\* texts, and has left out another.
C6_Witness ==
    /\ pc = "returned"
    /\ \E url \in ret : HasExcludedText(url)
    /\ \E href \in arg.html :
         /\ HasExcludedText(urljoin(arg.base_url, href))
         /\ urljoin(arg.base_url, href) \notin ret

(***************************************************************************)
(* l.142-147 on its own                                                    *)
(***************************************************************************)

\* The longest raw statement tried.
MaxLen == 9

\* The characters of the raw statements: a letter, in the case the pattern
\* does not spell, a digit and a space.
TextChars == {"c", "1", " "}

\* The raw statements: `if prereq_text` holds, so none is empty.
RawStatements == UNION {[1..n -> TextChars] : n \in 1..MaxLen}

ExtractInit ==
    /\ mode = "extract"
    /\ pc = "call"
    /\ arg \in RawStatements
    /\ ret = None
    /\ NoCrawl

\* l.142-147 with prereq_text = arg.
StructurePrereqs ==
    /\ mode = "extract"
    /\ pc = "call"
    /\ ret' = Prereqs(arg)
    /\ pc' = "returned"
    /\ UNCHANGED <<queue, visited_urls, course_urls_to_scrape, to_scrape, all_prereqs,
                   output_file, file_writes, crawl_fetches, scrape_fetches, same_found,
                   cross_found, enqueued, last, mode, arg>>

ExtractNext == StructurePrereqs

\* The prerequisites value computed from a raw statement.
ExtractSpec == ExtractInit /\ [][ExtractNext]_vars

\* t is a course code: 2-4 letters, an optional space, 2-4 digits, an
\* optional letter.
IsCourseCode(t) ==
    \E n \in 2..4 : \E sp \in 0..1 : \E m \in 2..4 : \E tr \in 0..1 :
        /\ Len(t) = n + sp + m + tr
        /\ \A k \in 1..n : IsLetter(t[k])
        /\ sp = 1 => t[n + 1] \in Whitespace
        /\ \A k \in (n + sp + 1)..(n + sp + m) : IsDigit(t[k])
        /\ tr = 1 => IsLetter(t[Len(t)])

\* The places <<first, last>> of s where a course code stands.
CodeSpans(s) ==
    {sp \in (1..Len(s)) \X (1..Len(s)) :
        /\ sp[1] + 3 <= sp[2]
        /\ IsLetter(s[sp[1]])
        /\ IsCourseCode(Slice(s, sp[1], sp[2]))}

\* None of the places in spans lies within from..to.
CodeFree(spans, from, to) ==
    \A sp \in spans : ~(from <= sp[1] /\ sp[2] <= to)

\* f lists k of the places in spans from left to right, none overlapping
\* the next, with no course code left between them, before the first or
\* after the last (last being the end of the statement).
IsTokenisation(spans, f, k, last_index) ==
    /\ \A i \in 1..(k - 1) : f[i][2] < f[i + 1][1]
    /\ CodeFree(spans, 1, f[1][1] - 1)
    /\ \A i \in 1..(k - 1) : CodeFree(spans, f[i][2] + 1, f[i + 1][1] - 1)
    /\ CodeFree(spans, f[k][2] + 1, last_index)

\* C7: the prerequisites value of a non-empty raw statement that holds a
\* course code is the course codes found in it from left to right, repeated
\* ones kept, joined by ", "; that of one that holds none is the statement.
C7_CodesJoinedOrRaw ==
    pc = "returned" =>
        \E spans \in {CodeSpans(arg)} :
            IF spans = {}
            THEN ret = arg
            ELSE \E k \in 1..(Len(arg) \div 4) : \E f \in [1..k -> spans] :
                    /\ IsTokenisation(spans, f, k, Len(arg))
                    /\ ret = Join(<<","," ">>, [i \in 1..k |-> Slice(arg, f[i][1], f[i][2])])

\* C7: a statement with the same course code twice gave it twice.
C7_Witness ==
    /\ pc = "returned"
    /\ \E t, u \in CodeSpans(arg) :
         /\ t[2] < u[1]
         /\ Slice(arg, t[1], t[2]) = Slice(arg, u[1], u[2])
         /\ ret = Slice(arg, t[1], t[2]) \o <<","," ">> \o Slice(arg, u[1], u[2])

(***************************************************************************)
(* chatbot.py                                                              *)
(***************************************************************************)

\* course.get(key, default).
Get(course, key, default) == IF key \in DOMAIN course THEN course[key] ELSE default

\* l.64 comparing the strings as they are.
TitleMatches_Mut(title, course_name) == title = course_name

\* l.64: course["title"].lower() == course_name.lower().
TitleMatches(title, course_name) == Lower(title) = Lower(course_name)

\* l.65-67: the reply for a course that was found.
FoundMessage(course) ==
    Concat(<< <<"T","h","e"," ","p","r","e","r","e","q","u","i","s","i","t","e","s"," ","f","o","r"," ","'">>, course.title, <<"'"," ","a","r","e",":"," ">>,
              Get(course, "prerequisites", NotSpecified), <<"."," ","(","S","o","u","r","c","e",":"," ">>,
              Get(course, "source", <<"U","n","k","n","o","w","n">>), <<")">> >>)

\* l.69: the reply when no course was found.
NotFoundMessage(course_name) ==
    Concat(<< <<"S","o","r","r","y",","," ","I"," ","c","o","u","l","d"," ","n","o","t"," ","f","i","n","d"," ","a"," ","c","o","u","r","s","e"," ","n","a","m","e","d"," ","'">>, course_name,
              <<"'"," ","i","n"," ","t","h","e"," ","d","a","t","a","b","a","s","e",".">> >>)

RECURSIVE FindFrom(_, _, _)
\* The for loop of l.62-69 from the i-th course on.
FindFrom(course_name, data, i) ==
    IF i > Len(data) THEN NotFoundMessage(course_name)
    ELSE IF TitleMatches(data[i].title, course_name) THEN FoundMessage(data[i])
    ELSE FindFrom(course_name, data, i + 1)

\* find_prerequisites(course_name, data).
find_prerequisites(course_name, data) == FindFrom(course_name, data, 1)

\* list_all_courses(data): the lines it prints.
list_all_courses(data) ==
    << <<"-","-","-"," ","A","v","a","i","l","a","b","l","e"," ","C","o","u","r","s","e","s"," ","-","-","-">> >>
        \o [i \in 1..Len(data) |->
               Concat(<< <<"-"," ">>, Get(data[i], "title", <<"U","n","k","n","o","w","n"," ","T","i","t","l","e">>), <<" ","(","S","o","u","r","c","e",":"," ">>,
                         Get(data[i], "source", <<"U","n","k","n","o","w","n"," ","S","o","u","r","c","e">>), <<")">> >>)]
        \o << <<"-","-","-","-","-","-","-","-","-","-","-","-","-","-","-","-","-","-","-","-","-","-","-","-","-">> >>

\* The most courses a data file of the model holds.
MaxData == 2

\* The titles of the courses: two that differ in case only, one that is a
\* command of the chatbot, one more.
Titles == { <<"A","b">>, <<"A","B">>, <<"L","i","s","t">>, <<"b">> }

\* Records as scraper.py writes them.
Courses ==
    {[title |-> t, prerequisites |-> p, source |-> <<"u">>] :
        t \in Titles, p \in { <<"C","S","1","0","1">>, <<"n","o","n","e">> }}

\* DATA_FILE: missing, or holding a list of courses.
DataFiles ==
    {[exists |-> FALSE, courses |-> <<>>]}
        \cup {[exists |-> TRUE, courses |-> d] :
                 d \in UNION {[1..n -> Courses] : n \in 0..MaxData}}

\* load_data() returns None without a file and the list of the file
\* otherwise (l.23-29); `if not course_data` (l.79) ends the session for
\* None and for an empty list.
NoData(file) == ~file.exists \/ file.courses = <<>>

\* What the user types at the prompt.
UserInputs ==
    { <<"a","b">>, <<" ","A","B"," ">>, <<"A","b">>, <<"b">>, <<"c">>, <<"l","i","s","t">>, <<"L","I","S","T">>, <<"e","x","i","t">>, <<"Q","u","i","t">>, <<>>, <<" ">> }

ChatInit ==
    /\ mode = "chat"
    /\ arg \in {[file |-> f, data |-> f.courses] : f \in DataFiles}
    /\ pc = IF NoData(arg.file) THEN "ended" ELSE "prompt"
    /\ ret = None
    /\ NoCrawl

ChatUnchanged ==
    UNCHANGED <<queue, visited_urls, course_urls_to_scrape, to_scrape, all_prereqs,
                output_file, file_writes, crawl_fetches, scrape_fetches, same_found,
                cross_found, enqueued, last, mode, arg>>

\* l.86-90: 'exit' or 'quit' ends the loop.
ChatExit ==
    /\ mode = "chat"
    /\ pc = "prompt"
    /\ \E typed \in UserInputs : \E user_input \in {Strip(typed)} :
         /\ Lower(user_input) \in { <<"e","x","i","t">>, <<"q","u","i","t">> }
         /\ ret' = [command |-> "exit", user_input |-> user_input,
                    printed |-> <<"G","o","o","d","b","y","e","!">>]
         /\ pc' = "ended"
    /\ ChatUnchanged

\* l.91-92: 'list' prints the courses.
ChatList ==
    /\ mode = "chat"
    /\ pc = "prompt"
    /\ \E typed \in UserInputs : \E user_input \in {Strip(typed)} :
         /\ Lower(user_input) \notin { <<"e","x","i","t">>, <<"q","u","i","t">> }
         /\ Lower(user_input) = <<"l","i","s","t">>
         /\ ret' = [command |-> "list", user_input |-> user_input,
                    printed |-> list_all_courses(arg.data)]
         /\ pc' = "prompt"
    /\ ChatUnchanged

\* l.93-95: an empty input is asked again.
ChatEmpty ==
    /\ mode = "chat"
    /\ pc = "prompt"
    /\ \E typed \in UserInputs : \E user_input \in {Strip(typed)} :
         /\ Lower(user_input) \notin { <<"e","x","i","t">>, <<"q","u","i","t">> }
         /\ Lower(user_input) # <<"l","i","s","t">>
         /\ user_input = <<>>
         /\ ret' = [command |-> "empty", user_input |-> user_input,
                    printed |-> <<"P","l","e","a","s","e"," ","e","n","t","e","r"," ","a"," ","c","o","u","r","s","e"," ","n","a","m","e"," ","o","r"," ","c","o","m","m","a","n","d",".">>]
         /\ pc' = "prompt"
    /\ ChatUnchanged

\* l.96-99: anything else is looked up.
ChatLookup ==
    /\ mode = "chat"
    /\ pc = "prompt"
    /\ \E typed \in UserInputs : \E user_input \in {Strip(typed)} :
         /\ Lower(user_input) \notin { <<"e","x","i","t">>, <<"q","u","i","t">> }
         /\ Lower(user_input) # <<"l","i","s","t">>
         /\ user_input # <<>>
         /\ ret' = [command |-> "lookup", user_input |-> user_input,
                    printed |-> find_prerequisites(user_input, arg.data)]
         /\ pc' = "prompt"
    /\ ChatUnchanged

ChatNext == ChatExit \/ ChatList \/ ChatEmpty \/ ChatLookup

\* A session of chatbot.py.
ChatSpec == ChatInit /\ [][ChatNext]_vars

\* c and d are the same letter, in whatever case.
SameLetter(c, d) ==
    \E k \in 1..Len(UpperChars) : {c, d} \subseteq {UpperChars[k], LowerChars[k]}

\* a and b are equal when the case of their letters is ignored.
EqualIgnoringCase(a, b) ==
    /\ Len(a) = Len(b)
    /\ \A i \in 1..Len(a) : a[i] = b[i] \/ SameLetter(a[i], b[i])

\* C8: a lookup replies with the prerequisites of the first course of the
\* data whose title equals the query when case is ignored, and with the
\* not-found message only when no title does.
C8_CaseInsensitiveLookup ==
    (pc = "prompt" /\ ret # None /\ ret.command = "lookup") =>
        LET hits == {i \in 1..Len(arg.data) :
                        EqualIgnoringCase(arg.data[i].title, ret.user_input)}
        IN  IF hits = {}
            THEN ret.printed = NotFoundMessage(ret.user_input)
            ELSE LET first == CHOOSE i \in hits : \A j \in hits : i <= j
                 IN  /\ ret.printed = FoundMessage(arg.data[first])
                     /\ ret.printed # NotFoundMessage(ret.user_input)

\* C8: a lookup found the second course of the data, whose title differs
\* from the query in case, the first course having another title.
C8_Witness ==
    /\ ret # None
    /\ ret.command = "lookup"
    /\ Len(arg.data) = 2
    /\ ret.printed = FoundMessage(arg.data[2])
    /\ arg.data[2].title # ret.user_input
    /\ ~EqualIgnoringCase(arg.data[1].title, ret.user_input)

=============================================================================
